---- MODULE Spec2Model ----
(***************************************************************************)
(* pylogkit/log_setup.py as a state machine: the thread-local context      *)
(* store, the record enrichment filter, the formatters, the handler wiring *)
(* done by setup_logging / setup_syslog_logger, the log_duration decorator *)
(* and the tqdm_logging generator.                                         *)
(***************************************************************************)
EXTENDS Integers, Sequences, FiniteSets, TLC

VARIABLES
    jsonlogger,   \* whether "from pythonjsonlogger import jsonlogger" succeeded
    tqdm,         \* whether "from tqdm import tqdm" succeeded
    app_env,      \* the APP_ENV environment variable: [set, v]
    alive,        \* the threads that have been started
    data,         \* _log_context: per thread-local slot, the attribute "data"
    own,          \* history: the fields each thread has itself written and not since replaced
    loggers,      \* logging.getLogger(name): level, handlers, number of ContextFilters
    requested,    \* history: the arguments of the latest setup_logging call per name
    last,         \* the call made by the latest step
    rec,          \* what the logger call of the latest step produced (NoRec if none)
    dur,          \* outcome of the latest call of a log_duration wrapper
    gen,          \* the generator object returned by tqdm_logging
    events        \* what the generator has logged and yielded, in order

vars == <<jsonlogger, tqdm, app_env, alive, data, own, loggers, requested,
          last, rec, dur, gen, events>>

----------------------------------------------------------------------------
\* Bounds of the exploration.

MaxFilters == 2    \* setup_logging calls explored per logger name
MaxHandlers == 5   \* handlers a logger may hold before setup_syslog_logger stops being explored
MaxItems == 2      \* length of the sequences handed to tqdm_logging

Threads == {"A", "B"}
MainThread == "A"
Names == {"app"}

----------------------------------------------------------------------------
\* Values of context fields: Python str and int, kept apart.

Str(s) == [kind |-> "str", s |-> s, n |-> 0]
IntV(n) == [kind |-> "int", s |-> "", n |-> n]

EmptyMap == [k \in {} |-> Str("")]

\* dict.update / {**c, **f}: keys of f win.
OverlayOldWins(c, f) ==
    [k \in DOMAIN c \cup DOMAIN f |-> IF k \in DOMAIN c THEN c[k] ELSE f[k]]

Overlay(c, f) ==
    [k \in DOMAIN c \cup DOMAIN f |-> IF k \in DOMAIN f THEN f[k] ELSE c[k]]

\* dict.setdefault(k, v)
SetDefault(c, k, v) == IF k \in DOMAIN c THEN c ELSE Overlay(c, k :> v)

Digit(d) ==
    CASE d = 0 -> "0" [] d = 1 -> "1" [] d = 2 -> "2" [] d = 3 -> "3" [] d = 4 -> "4"
      [] d = 5 -> "5" [] d = 6 -> "6" [] d = 7 -> "7" [] d = 8 -> "8" [] d = 9 -> "9"

RECURSIVE Dec(_)
\* str(n) of a non-negative int
Dec(n) == IF n < 10 THEN Digit(n) ELSE Dec(n \div 10) \o Digit(n % 10)

\* f"{v}"
PyStr(v) == IF v.kind = "int" THEN Dec(v.n) ELSE v.s

\* bool(v)
Truthy(v) == IF v.kind = "int" THEN v.n # 0 ELSE v.s # ""

\* v != "-"
NotDash(v) == ~(v.kind = "str" /\ v.s = "-")

----------------------------------------------------------------------------
\* The environment of the process.

Hostname == "host1"      \* socket.gethostname()
Pid == 4242              \* os.getpid()
EnvDefault == IF app_env.set THEN app_env.v ELSE "dev"   \* os.getenv("APP_ENV", "dev")

CtxKeys == <<"user_id", "session_id", "request_id", "hostname", "env", "pid">>

----------------------------------------------------------------------------
\* ContextStore: _log_context = threading.local()

NoData == [set |-> FALSE, d |-> EmptyMap]

\* A module-level dict instead of a threading.local: every thread uses one slot.
SharedSlot(t) == MainThread

\* The namespace of a threading.local that thread t reads and writes.
Slot(t) == t

\* The attributes a thread finds in the threading.local when it starts.
FreshLocal(creator) == NoData

GetLogContextNoProcessDefaults(t) ==
    LET d    == IF data[Slot(t)].set THEN data[Slot(t)].d ELSE EmptyMap
        c1   == SetDefault(d, "user_id", Str("-"))
        c2   == SetDefault(c1, "session_id", Str("-"))
    IN  SetDefault(c2, "request_id", Str("-"))

get_log_context(t) ==
    LET d    == IF data[Slot(t)].set THEN data[Slot(t)].d ELSE EmptyMap
        c1   == SetDefault(d, "user_id", Str("-"))
        c2   == SetDefault(c1, "session_id", Str("-"))
        c3   == SetDefault(c2, "request_id", Str("-"))
        c4   == SetDefault(c3, "hostname", Str(Hostname))
        c5   == SetDefault(c4, "env", Str(EnvDefault))
    IN  SetDefault(c5, "pid", IntV(Pid))

\* _log_context.data = kwargs
StoreData(t, f) == [data EXCEPT ![Slot(t)] = [set |-> TRUE, d |-> f]]

\* with_context: combined = get_log_context().copy().copy(); combined.update(context);
\* set_log_context(**combined)
WithContextData(t, f) == StoreData(t, Overlay(get_log_context(t), f))

----------------------------------------------------------------------------
\* Severity levels of the logging runtime.

\* str.upper() on the level names the model passes in
Upper(s) ==
    CASE s = "debug" -> "DEBUG" [] s = "info" -> "INFO" [] s = "warning" -> "WARNING"
      [] s = "error" -> "ERROR" [] s = "critical" -> "CRITICAL" [] OTHER -> s

\* logging's name -> number table (Handler.setLevel / Logger.setLevel with a name)
LevelNo(name) ==
    CASE name = "NOTSET" -> 0 [] name = "DEBUG" -> 10 [] name = "INFO" -> 20
      [] name = "WARNING" -> 30 [] name = "ERROR" -> 40 [] name = "CRITICAL" -> 50

\* ContextFilter.emoji_map.get(record.levelname, ''); glyphs written by name
Emoji(levelname) ==
    CASE levelname = "DEBUG" -> ":bug:" [] levelname = "INFO" -> ":info:"
      [] levelname = "WARNING" -> ":warning:" [] levelname = "ERROR" -> ":cross:"
      [] levelname = "CRITICAL" -> ":boom:" [] OTHER -> ""

----------------------------------------------------------------------------
\* setup_logging: the formatter of the console sink and the handler list.

\* lines 173-239: the formatter given to the console handler
SelectFormatter(mode) ==
    IF jsonlogger THEN "colour"
    ELSE IF mode = "compact" THEN "compact"
    ELSE "colour"

SinkLevelGlobalOnly(override, level) == LevelNo(Upper(level))

\* handler.setLevel((x_level or level).upper())
SinkLevel(override, level) ==
    LevelNo(Upper(IF override # "" THEN override ELSE level))

Handler(kind, level, fmt, by) == [kind |-> kind, level |-> level, fmt |-> fmt, by |-> by]

HandlersKept(hs) == hs

\* logger.handlers.clear()
HandlersCleared(hs) == << >>

\* lines 241-276: the handlers setup_logging adds, in order
NewHandlers(cfg) ==
    (IF cfg.to_console
       THEN <<Handler("console", SinkLevel(cfg.console_level, cfg.level),
                      SelectFormatter(cfg.mode), "setup_logging")>>
       ELSE << >>)
    \o (IF cfg.to_file /\ cfg.file_path # ""
       THEN <<Handler("file", SinkLevel(cfg.file_level, cfg.level),
                      "verbose", "setup_logging")>>
       ELSE << >>)
    \o (IF cfg.to_json_file /\ cfg.json_file_path # "" /\ jsonlogger
       THEN <<Handler("json", SinkLevel(cfg.json_level, cfg.level),
                      "json", "setup_logging")>>
       ELSE << >>)
    \o (IF cfg.to_syslog
       THEN <<Handler("syslog", SinkLevel(cfg.syslog_level, cfg.level),
                      "syslog", "setup_logging")>>
       ELSE << >>)

\* logger.addFilter(ContextFilter()): a new filter object each call, never removed
FiltersAfterSetup(n) == n + 1

NoLogger == [level |-> 0, handlers |-> << >>, filters |-> 0]

\* Logger.getEffectiveLevel: an unset level falls through to the root's WARNING
EffectiveLevel(n) ==
    IF loggers[n].level # 0 THEN loggers[n].level ELSE LevelNo("WARNING")

----------------------------------------------------------------------------
\* Formatters.

RECURSIVE Join(_)
\* " ".join(parts)
Join(parts) ==
    IF parts = << >> THEN ""
    ELSE IF Len(parts) = 1 THEN parts[1]
    ELSE parts[1] \o " " \o Join(Tail(parts))

\* SmartFieldFormatter.format, line 97: "if v and v != '-'"
FieldShown(v) == Truthy(v) /\ NotDash(v)

RECURSIVE DynamicFieldsFrom(_, _)
\* lines 86-98: field_map in key order; a missing attribute was set to ""
DynamicFieldsFrom(attrs, i) ==
    IF i > Len(CtxKeys) THEN << >>
    ELSE LET k == CtxKeys[i]
             v == IF k \in DOMAIN attrs THEN attrs[k] ELSE Str("")
         IN  (IF FieldShown(v) THEN <<"[" \o k \o "=" \o PyStr(v) \o "]">> ELSE << >>)
             \o DynamicFieldsFrom(attrs, i + 1)

\* SmartFieldFormatter.format: dynamic_fields
DynamicFields(attrs) == DynamicFieldsFrom(attrs, 1)

\* SmartFieldFormatter.format, lines 82-84 and 100: what it leaves on the record
SmartMutate(attrs) ==
    Overlay(Overlay([i \in {CtxKeys[j] : j \in 1..Len(CtxKeys)} |-> Str("")], attrs),
            "context" :> Str(Join(DynamicFields(attrs))))

\* json.dumps of one value
JsonLiteral(v) == IF v.kind = "int" THEN Dec(v.n) ELSE "\"" \o v.s \o "\""

\* jsonlogger.JsonFormatter(): message plus every extra attribute of the record
JsonObject(attrs, msg) ==
    Overlay([k \in DOMAIN attrs |-> JsonLiteral(attrs[k])], "message" :> JsonLiteral(Str(msg)))

EmojiOf(attrs) == IF "emoji" \in DOMAIN attrs THEN attrs["emoji"].s ELSE ""

\* The text a formatter produces; timestamp and source location are placeholders,
\* colour escape codes are left out.
FormatText(fmt, r, attrs) ==
    CASE fmt = "colour" ->
           "<asctime> [" \o r.levelname \o " " \o EmojiOf(attrs) \o "] [" \o r.name
           \o "] <filename>::<funcName>():<lineno> " \o Join(DynamicFields(attrs))
           \o " - " \o r.msg
      [] fmt = "verbose" ->
           "<asctime> [" \o r.levelname \o "] [" \o r.name
           \o "] [<filename>:<lineno> <funcName>()] " \o Join(DynamicFields(attrs))
           \o " - " \o r.msg
      [] fmt = "compact" -> "[" \o r.levelname \o "] " \o r.msg
      [] fmt = "syslog" ->
           r.name \o "[" \o Dec(Pid) \o "]: " \o r.levelname \o " " \o r.msg
      [] OTHER -> ""

IsSmart(fmt) == fmt \in {"colour", "verbose"}

----------------------------------------------------------------------------
\* One logger call: Logger.info/... -> isEnabledFor -> makeRecord -> Logger.filter
\* -> callHandlers -> Handler.format.

NoRec ==
    [called |-> FALSE, created |-> FALSE, thread |-> "", name |-> "", levelname |-> "",
     levelno |-> 0, msg |-> "", enriched |-> 0, attrs |-> EmptyMap, lines |-> << >>]

\* Logger.callHandlers: "if record.levelno >= hdlr.level"
HandlerAccepts(levelno, h) == levelno >= h.level

\* ContextFilter.filter run once: the context of the emitting thread and the emoji
ContextFilterApply(t, levelname, attrs) ==
    Overlay(Overlay(attrs, get_log_context(t)), "emoji" :> Str(Emoji(levelname)))

RECURSIVE RunFilters(_, _, _, _)
\* Logger.filter: every attached filter, in order
RunFilters(k, t, levelname, attrs) ==
    IF k = 0 THEN attrs
    ELSE RunFilters(k - 1, t, levelname, ContextFilterApply(t, levelname, attrs))

RECURSIVE Lines(_, _, _, _)
\* The handlers of the logger in order; a SmartFieldFormatter leaves its additions
\* on the record for the handlers after it.
Lines(hs, i, r, attrs) ==
    IF i > Len(hs) THEN << >>
    ELSE LET h == hs[i] IN
         IF HandlerAccepts(r.levelno, h)
         THEN << [kind    |-> h.kind,
                  by      |-> h.by,
                  fmt     |-> h.fmt,
                  text    |-> FormatText(h.fmt, r, attrs),
                  entries |-> IF IsSmart(h.fmt) THEN DynamicFields(attrs) ELSE << >>,
                  json    |-> IF h.fmt = "json" THEN JsonObject(attrs, r.msg)
                              ELSE [k \in {} |-> ""]] >>
              \o Lines(hs, i + 1, r, IF IsSmart(h.fmt) THEN SmartMutate(attrs) ELSE attrs)
         ELSE Lines(hs, i + 1, r, attrs)

\* getattr(logger, method)(msg) on thread t; via: through a ContextualLoggerAdapter,
\* whose process() puts get_log_context() into extra
Emission(t, n, method, msg, via) ==
    LET levelname == Upper(method)
        levelno   == LevelNo(levelname)
        r         == [name |-> n, levelname |-> levelname, levelno |-> levelno, msg |-> msg]
        extra     == IF via THEN get_log_context(t) ELSE EmptyMap
        attrs     == RunFilters(loggers[n].filters, t, levelname, extra)
    IN  IF levelno < EffectiveLevel(n)
        THEN [NoRec EXCEPT !.called = TRUE, !.thread = t, !.name = n,
                           !.levelname = levelname, !.levelno = levelno, !.msg = msg]
        ELSE [called |-> TRUE, created |-> TRUE, thread |-> t, name |-> n,
              levelname |-> levelname, levelno |-> levelno, msg |-> msg,
              enriched |-> loggers[n].filters, attrs |-> attrs,
              lines |-> Lines(loggers[n].handlers, 1, r, attrs)]

----------------------------------------------------------------------------
\* Inputs.

F_bob == "user_id" :> Str("bob")
F_zero == ("user_id" :> IntV(0)) @@ ("session_id" :> Str(""))
F_host == ("hostname" :> Str("web2")) @@ ("env" :> Str("-")) @@ ("pid" :> IntV(7))

FieldMaps == {F_bob, F_zero, F_host}

Methods == {"debug", "info", "warning", "error", "critical"}

Cfg(con, file, json, sys, level, mode) ==
    [to_console |-> con, to_file |-> file, file_path |-> "app.log",
     to_json_file |-> json, json_file_path |-> "app.json.log", to_syslog |-> sys,
     level |-> level, console_level |-> "", file_level |-> "", json_level |-> "",
     syslog_level |-> "", mode |-> mode, context |-> EmptyMap]

\* setup_logging(name): every argument at its default
DefaultCfg == Cfg(TRUE, FALSE, FALSE, FALSE, "INFO", "verbose")

NoLast == [op |-> "none", thread |-> "", name |-> "", ret |-> ""]
NoDur == [ran |-> FALSE, raised |-> FALSE, logged |-> FALSE, returned |-> FALSE]
NoGen == [state |-> "none", items |-> << >>, idx |-> 0, thread |-> "", name |-> "",
          method |-> ""]

Init ==
    /\ jsonlogger \in BOOLEAN
    /\ tqdm \in BOOLEAN
    /\ app_env \in {[set |-> FALSE, v |-> ""], [set |-> TRUE, v |-> "prod"]}
    /\ alive = {MainThread}
    /\ data = [s \in Threads |-> NoData]
    /\ own = [t \in Threads |-> EmptyMap]
    /\ loggers = [n \in Names |-> NoLogger]
    /\ requested = [n \in Names |-> [set |-> FALSE, cfg |-> DefaultCfg]]
    /\ last = NoLast
    /\ rec = NoRec
    /\ dur = NoDur
    /\ gen = NoGen
    /\ events = << >>

----------------------------------------------------------------------------
\* Context operations.

\* threading.Thread(...).start() by thread t
StartThread(t, u) ==
    /\ t \in alive /\ u \notin alive
    /\ alive' = alive \cup {u}
    /\ data' = [data EXCEPT ![Slot(u)] = FreshLocal(t)]
    /\ own' = [own EXCEPT ![u] = EmptyMap]
    /\ last' = [NoLast EXCEPT !.op = "start", !.thread = u]
    /\ rec' = NoRec
    /\ UNCHANGED <<jsonlogger, tqdm, app_env, loggers, requested, dur, gen, events>>

set_log_context(t, f) ==
    /\ t \in alive
    /\ data' = StoreData(t, f)
    /\ own' = [own EXCEPT ![t] = f]
    /\ last' = [NoLast EXCEPT !.op = "set_log_context", !.thread = t]
    /\ rec' = NoRec
    /\ UNCHANGED <<jsonlogger, tqdm, app_env, alive, loggers, requested, dur, gen, events>>

clear_log_context(t) ==
    /\ t \in alive
    /\ data' = StoreData(t, EmptyMap)
    /\ own' = [own EXCEPT ![t] = EmptyMap]
    /\ last' = [NoLast EXCEPT !.op = "clear_log_context", !.thread = t]
    /\ rec' = NoRec
    /\ UNCHANGED <<jsonlogger, tqdm, app_env, alive, loggers, requested, dur, gen, events>>

\* ContextualLoggerAdapter(getLogger(n)).with_context(**f) on thread t; returns self
with_context(t, n, f) ==
    /\ t \in alive
    /\ data' = WithContextData(t, f)
    /\ own' = [own EXCEPT ![t] = Overlay(own[t], f)]
    /\ last' = [op |-> "with_context", thread |-> t, name |-> n, ret |-> n]
    /\ rec' = NoRec
    /\ UNCHANGED <<jsonlogger, tqdm, app_env, alive, loggers, requested, dur, gen, events>>

----------------------------------------------------------------------------
\* Logger configuration.

setup_logging(t, n, cfg) ==
    /\ t \in alive
    /\ loggers[n].filters < MaxFilters
    /\ loggers' = [loggers EXCEPT ![n] =
                     [level    |-> LevelNo("DEBUG"),
                      handlers |-> HandlersCleared(loggers[n].handlers) \o NewHandlers(cfg),
                      filters  |-> FiltersAfterSetup(loggers[n].filters)]]
    /\ requested' = [requested EXCEPT ![n] = [set |-> TRUE, cfg |-> cfg]]
    /\ IF cfg.context # EmptyMap
       THEN /\ data' = StoreData(t, cfg.context)
            /\ own' = [own EXCEPT ![t] = cfg.context]
       ELSE UNCHANGED <<data, own>>
    /\ last' = [NoLast EXCEPT !.op = "setup_logging", !.thread = t, !.name = n]
    /\ rec' = NoRec
    /\ UNCHANGED <<jsonlogger, tqdm, app_env, alive, dur, gen, events>>

setup_syslog_logger(t, n, level) ==
    /\ t \in alive
    /\ Len(loggers[n].handlers) < MaxHandlers
    /\ loggers' = [loggers EXCEPT ![n] =
                     [level    |-> LevelNo(Upper(level)),
                      handlers |-> Append(loggers[n].handlers,
                                          Handler("syslog", 0, "syslog", "setup_syslog_logger")),
                      filters  |-> loggers[n].filters]]
    /\ last' = [NoLast EXCEPT !.op = "setup_syslog_logger", !.thread = t, !.name = n]
    /\ rec' = NoRec
    /\ UNCHANGED <<jsonlogger, tqdm, app_env, alive, data, own, requested, dur, gen, events>>

\* logger.<method>(msg), directly or through the adapter
Emit(t, n, method, msg, via) ==
    /\ t \in alive
    /\ rec' = Emission(t, n, method, msg, via)
    /\ last' = [NoLast EXCEPT !.op = "emit", !.thread = t, !.name = n]
    /\ UNCHANGED <<jsonlogger, tqdm, app_env, alive, data, own, loggers, requested,
                   dur, gen, events>>

----------------------------------------------------------------------------
\* log_duration(logger, level)(func)(): one call of the wrapper. raises: whether
\* func raises. Nothing catches the exception, so lines 300-302 are skipped.
log_duration(t, n, method, via, raises) ==
    /\ t \in alive
    /\ IF raises
       THEN /\ dur' = [ran |-> TRUE, raised |-> TRUE, logged |-> FALSE, returned |-> FALSE]
            /\ rec' = NoRec
       ELSE /\ dur' = [ran |-> TRUE, raised |-> FALSE, logged |-> TRUE, returned |-> TRUE]
            /\ rec' = Emission(t, n, method, "work took <duration> seconds", via)
    /\ last' = [NoLast EXCEPT !.op = "log_duration", !.thread = t, !.name = n]
    /\ UNCHANGED <<jsonlogger, tqdm, app_env, alive, data, own, loggers, requested,
                   gen, events>>

\* tqdm_logging(iterable, logger, level): the body holds a yield, so the call only
\* creates a generator; no line of the body has run yet.
tqdm_logging(t, n, method, items) ==
    /\ t \in alive
    /\ gen' = [state |-> "created", items |-> items, idx |-> 0, thread |-> t,
               name |-> n, method |-> method]
    /\ events' = << >>
    /\ last' = [NoLast EXCEPT !.op = "tqdm_logging", !.thread = t, !.name = n]
    /\ rec' = NoRec
    /\ UNCHANGED <<jsonlogger, tqdm, app_env, alive, data, own, loggers, requested, dur>>

ProgressLine(i, total) == "Progress: " \o Dec(i) \o "/" \o Dec(total)

\* next() on the generator. With tqdm imported, "return tqdm(iterable)" ends the
\* generator (StopIteration) before anything is yielded; otherwise the loop body
\* logs the progress line and yields the next item.
GeneratorNext ==
    /\ gen.state \in {"created", "suspended"}
    /\ IF gen.state = "created" /\ tqdm
       THEN /\ gen' = [gen EXCEPT !.state = "done"]
            /\ UNCHANGED events
            /\ rec' = NoRec
       ELSE IF gen.idx < Len(gen.items)
       THEN /\ gen' = [gen EXCEPT !.state = "suspended", !.idx = gen.idx + 1]
            /\ rec' = Emission(gen.thread, gen.name, gen.method,
                               ProgressLine(gen.idx + 1, Len(gen.items)), FALSE)
            /\ events' = events \o
                  << [e |-> "log", text |-> ProgressLine(gen.idx + 1, Len(gen.items))],
                     [e |-> "item", text |-> gen.items[gen.idx + 1]] >>
       ELSE /\ gen' = [gen EXCEPT !.state = "done"]
            /\ UNCHANGED events
            /\ rec' = NoRec
    /\ last' = [NoLast EXCEPT !.op = "next", !.thread = gen.thread, !.name = gen.name]
    /\ UNCHANGED <<jsonlogger, tqdm, app_env, alive, data, own, loggers, requested, dur>>

----------------------------------------------------------------------------
\* Context propagation: two threads, one logger with console, file and JSON sinks.

CtxCfgs ==
    {Cfg(TRUE, TRUE, TRUE, FALSE, "DEBUG", "verbose"),
     [Cfg(TRUE, TRUE, TRUE, FALSE, "DEBUG", "verbose") EXCEPT !.context = F_bob]}

Next ==
    \/ \E t, u \in Threads : StartThread(t, u)
    \/ \E t \in Threads, f \in FieldMaps : set_log_context(t, f)
    \/ \E t \in Threads : clear_log_context(t)
    \/ \E t \in Threads, n \in Names, f \in FieldMaps : with_context(t, n, f)
    \/ \E t \in Threads, n \in Names, cfg \in CtxCfgs : setup_logging(t, n, cfg)
    \/ \E t \in Threads, n \in Names, via \in BOOLEAN : Emit(t, n, "info", "hi", via)

\* No step of Next reads tqdm.
InitCtx == Init /\ tqdm = FALSE

Spec == InitCtx /\ [][Next]_vars

----------------------------------------------------------------------------
\* What the claims call the computed default of a context key.
DefaultOf(k) ==
    CASE k = "hostname" -> Str(Hostname)
      [] k = "env" -> Str(IF app_env.set THEN app_env.v ELSE "dev")
      [] k = "pid" -> IntV(Pid)
      [] OTHER -> Str("-")

OwnOrDefault(t, k, v) == (k \in DOMAIN own[t] /\ own[t][k] = v) \/ v = DefaultOf(k)

ProcessKeys == {"hostname", "env", "pid"}

\* C1: context isolation across threads. Whatever the interleaving of context
\* calls and emissions on threads A and B, every key/value that get_log_context
\* returns on a thread, and every context field on a record the thread emits, is
\* one the thread wrote itself or a computed default (so a thread that wrote no
\* user_id emits user_id = "-"), and a thread that has just been started sees
\* only defaults.
C1_ContextIsolation ==
    /\ \A t \in alive : \A k \in DOMAIN get_log_context(t) :
          OwnOrDefault(t, k, get_log_context(t)[k])
    /\ rec.created =>
          \A k \in DOMAIN rec.attrs \ {"emoji"} : OwnOrDefault(rec.thread, k, rec.attrs[k])
    /\ last.op = "start" =>
          get_log_context(last.thread)
            = [k \in {CtxKeys[i] : i \in 1..Len(CtxKeys)} |-> DefaultOf(k)]

\* C1 witness: A has set user_id = "bob", B has set nothing, and B's record
\* carries the placeholder.
C1_Witness ==
    /\ "user_id" \in DOMAIN own["A"] /\ own["A"]["user_id"] = Str("bob")
    /\ own["B"] = EmptyMap
    /\ rec.created /\ rec.thread = "B" /\ rec.enriched > 0
    /\ rec.attrs["user_id"] = Str("-")

\* C2: hostname, env and pid are present in the context of every thread and on
\* every enriched record, each with the value the thread supplied or else the
\* computed default (host name, APP_ENV or "dev", process id).
C2_DefaultFieldsPresent ==
    /\ \A t \in alive : \A k \in ProcessKeys :
          /\ k \in DOMAIN get_log_context(t)
          /\ get_log_context(t)[k] = IF k \in DOMAIN own[t] THEN own[t][k] ELSE DefaultOf(k)
    /\ (rec.created /\ rec.enriched > 0) =>
          \A k \in ProcessKeys :
             /\ k \in DOMAIN rec.attrs
             /\ rec.attrs[k] = IF k \in DOMAIN own[rec.thread] THEN own[rec.thread][k]
                                ELSE DefaultOf(k)

\* C2 witness: a record enriched on a thread whose field map (user_id only) omits
\* the three keys, with APP_ENV unset.
C2_Witness ==
    /\ rec.created /\ rec.enriched > 0
    /\ own[rec.thread] = F_bob
    /\ ~app_env.set
    /\ rec.attrs["env"] = Str("dev") /\ rec.attrs["pid"] = IntV(Pid)
    /\ rec.attrs["hostname"] = Str(Hostname)

----------------------------------------------------------------------------
\* Sink wiring: one thread, one logger name configured again and again.

FlagSets ==
    {<<TRUE, TRUE, TRUE, TRUE>>, <<TRUE, FALSE, FALSE, TRUE>>,
     <<FALSE, TRUE, TRUE, FALSE>>, <<FALSE, FALSE, FALSE, FALSE>>}

\* <<console_level, file_level, json_level, syslog_level>>; "" is None
Overrides ==
    {<<"", "", "", "">>, <<"ERROR", "DEBUG", "", "">>, <<"", "", "debug", "CRITICAL">>}

SinkCfgs ==
    {[to_console |-> fl[1], to_file |-> fl[2], file_path |-> fp,
      to_json_file |-> fl[3], json_file_path |-> "app.json.log", to_syslog |-> fl[4],
      level |-> lv, console_level |-> ov[1], file_level |-> ov[2],
      json_level |-> ov[3], syslog_level |-> ov[4], mode |-> m, context |-> EmptyMap] :
        fl \in FlagSets, fp \in {"app.log", ""}, lv \in {"INFO", "error"},
        ov \in Overrides, m \in {"verbose", "compact"}}

NextSinks ==
    \/ \E n \in Names, cfg \in SinkCfgs : setup_logging(MainThread, n, cfg)
    \/ \E n \in Names : setup_syslog_logger(MainThread, n, "warning")
    \/ \E n \in Names, m \in Methods : Emit(MainThread, n, m, "hi", FALSE)

\* No step of NextSinks reads tqdm; APP_ENV only feeds the env default.
InitSinks == Init /\ tqdm = FALSE /\ ~app_env.set

SpecSinks == InitSinks /\ [][NextSinks]_vars

----------------------------------------------------------------------------
\* The decorator and the progress helper on a logger with the default setup.

RECURSIVE SeqsUpTo(_)
SeqsUpTo(k) ==
    IF k = 0 THEN {<< >>}
    ELSE SeqsUpTo(k - 1) \cup {Append(q, x) : q \in SeqsUpTo(k - 1), x \in {"x", "y"}}

NextUtil ==
    \/ \E n \in Names : setup_logging(MainThread, n, DefaultCfg)
    \/ \E n \in Names, m \in {"info", "debug"}, raises \in BOOLEAN :
          log_duration(MainThread, n, m, TRUE, raises)
    \/ \E n \in Names, items \in SeqsUpTo(MaxItems) :
          tqdm_logging(MainThread, n, "info", items)
    \/ GeneratorNext

SpecUtil == Init /\ [][NextUtil]_vars

----------------------------------------------------------------------------
\* Claims about the sinks.

SinkKinds == {"console", "file", "json", "syslog"}

KindsOf(hs) == [i \in DOMAIN hs |-> hs[i].kind]

LinesOf(kind) ==
    {i \in DOMAIN rec.lines : rec.lines[i].kind = kind /\ rec.lines[i].by = "setup_logging"}

\* The sinks a call asks for: the flag is set and, for the file sinks, a path is given.
AskedKinds(cfg) ==
    {k \in SinkKinds :
        \/ k = "console" /\ cfg.to_console
        \/ k = "file" /\ cfg.to_file /\ cfg.file_path # ""
        \/ k = "json" /\ cfg.to_json_file /\ cfg.json_file_path # ""
        \/ k = "syslog" /\ cfg.to_syslog}

\* The same, but a JSON sink only when python-json-logger could be imported.
CreatableKinds(cfg) == AskedKinds(cfg) \ (IF jsonlogger THEN {} ELSE {"json"})

\* C4 as claimed: right after setup_logging the handlers are exactly the sinks the
\* call asked for, one each.
C4_ExactlyRequested ==
    last.op = "setup_logging" =>
       LET hs == loggers[last.name].handlers IN
       /\ {hs[i].kind : i \in DOMAIN hs} = AskedKinds(requested[last.name].cfg)
       /\ \A i, j \in DOMAIN hs : hs[i].kind = hs[j].kind => i = j

\* C4 amended: right after setup_logging the handlers are exactly the sinks the call
\* asked for and could create (no JSON sink without python-json-logger), one each,
\* all made by this call, none left from an earlier call; and an emission writes
\* at most one line per sink of setup_logging.
C4_ReplacesSinkSet ==
    /\ last.op = "setup_logging" =>
          LET hs == loggers[last.name].handlers IN
          /\ {hs[i].kind : i \in DOMAIN hs} = CreatableKinds(requested[last.name].cfg)
          /\ \A i, j \in DOMAIN hs : hs[i].kind = hs[j].kind => i = j
          /\ \A i \in DOMAIN hs : hs[i].by = "setup_logging"
    /\ rec.created => \A k \in SinkKinds : Cardinality(LinesOf(k)) <= 1

\* C4 witness: a second setup_logging on a name that already had four handlers
\* and one added by setup_syslog_logger, asking for file and JSON only.
C4_Witness ==
    /\ last.op = "setup_logging"
    /\ loggers[last.name].filters = 2
    /\ jsonlogger
    /\ KindsOf(loggers[last.name].handlers) = <<"file", "json">>

\* C5: every record emitted through a logger configured by setup_logging is
\* enriched by ContextFilter exactly once, however often setup_logging ran.
C5_EnrichedExactlyOnce ==
    (rec.created /\ requested[rec.name].set) => rec.enriched = 1

\* The floor the caller asked for: the sink's own override when given, else level.
FloorOf(cfg, kind) ==
    LET o == CASE kind = "console" -> cfg.console_level
               [] kind = "file" -> cfg.file_level
               [] kind = "json" -> cfg.json_level
               [] kind = "syslog" -> cfg.syslog_level
    IN  LevelNo(Upper(IF o = "" THEN cfg.level ELSE o))

\* C7: per-sink severity floor. For every record emitted and every sink made by
\* setup_logging, the sink writes a line for the record exactly when the record's
\* severity is at or above the sink's floor (its override, else the global level).
C7_PerSinkFloor ==
    (rec.created /\ requested[rec.name].set) =>
       \A i \in DOMAIN loggers[rec.name].handlers :
          LET h == loggers[rec.name].handlers[i] IN
          h.by = "setup_logging" =>
             (LinesOf(h.kind) # {} <=> rec.levelno >= FloorOf(requested[rec.name].cfg, h.kind))

\* C7 witness: an INFO record with a console floor of ERROR and a file floor of
\* DEBUG on the same logger: the file sink writes it, the console sink does not.
C7_Witness ==
    /\ rec.created /\ rec.levelname = "INFO"
    /\ requested[rec.name].set
    /\ requested[rec.name].cfg.console_level = "ERROR"
    /\ requested[rec.name].cfg.file_level = "DEBUG"
    /\ \E i \in DOMAIN loggers[rec.name].handlers :
          loggers[rec.name].handlers[i].kind = "console"
    /\ LinesOf("console") = {} /\ LinesOf("file") # {}

\* C8: the console renderer follows mode alone: "[SEVERITY] message" for compact,
\* the full contextual format for verbose.
C8_ConsoleFollowsMode ==
    (rec.created /\ requested[rec.name].set) =>
       \A i \in LinesOf("console") :
          rec.lines[i].text =
             IF requested[rec.name].cfg.mode = "compact"
             THEN "[" \o rec.levelname \o "] " \o rec.msg
             ELSE FormatText("colour", rec, rec.attrs)

\* C9: for each of the six context fields the human renderer writes "[key=value]"
\* (an int in decimal) exactly when the value is neither "" nor "-", and the JSON
\* line of the same record still holds the key with its value.
C9_FieldRedaction ==
    (rec.created /\ rec.enriched > 0) =>
       \A i \in DOMAIN rec.lines : \A j \in DOMAIN CtxKeys :
          LET l == rec.lines[i]
              k == CtxKeys[j]
              v == rec.attrs[k]
          IN  /\ IsSmart(l.fmt) =>
                   ((\E e \in DOMAIN l.entries :
                        l.entries[e] = "[" \o k \o "=" \o PyStr(v) \o "]")
                    <=> (v # Str("") /\ v # Str("-")))
              /\ l.fmt = "json" =>
                   (k \in DOMAIN l.json /\ l.json[k] = JsonLiteral(v))

----------------------------------------------------------------------------
\* Claims about the decorator and the progress helper.

\* C6: when the wrapped function raises, the duration line is still logged and the
\* exception reaches the caller.
C6_DurationLoggedOnFailure ==
    (last.op = "log_duration" /\ dur.raised) => (dur.logged /\ ~dur.returned)

Yielded == SelectSeq(events, LAMBDA ev : ev.e = "item")

RECURSIVE FallbackTrace(_, _)
\* "Progress: i/n" before the i-th item, for i = 1..n
FallbackTrace(items, i) ==
    IF i > Len(items) THEN << >>
    ELSE << [e |-> "log", text |-> ProgressLine(i, Len(items))],
            [e |-> "item", text |-> items[i]] >> \o FallbackTrace(items, i + 1)

\* C10: a consumer that runs the generator to its end has been handed every item
\* once, in order, with or without tqdm; without tqdm each item was preceded by
\* its progress line.
C10_SequencePreserved ==
    gen.state = "done" =>
       /\ [i \in DOMAIN Yielded |-> Yielded[i].text] = gen.items
       /\ ~tqdm => events = FallbackTrace(gen.items, 1)
====
